---- MODULE Spec2Model ----
(***************************************************************************)
(* Model of scripts/validate-artifacthub-annotations.py: the validators of *)
(* the artifacthub.io annotations of a Chart.yaml file and the entry point *)
(* that runs them over the files named on the command line.                *)
(*                                                                         *)
(* Python strings are sequences of character codes, so that str.lower(),   *)
(* str.strip() and sorted() are computed as Python computes them.  A       *)
(* parsed YAML document is a tree of nodes of one record shape.  The text  *)
(* of a file or of an annotation is not modelled character by character:   *)
(* a text carries the outcome yaml.safe_load has on it.                    *)
(***************************************************************************)
EXTENDS Integers, Sequences, FiniteSets, TLC

\* ------------------------------------------------------------------------
\* Bounds of the model
\* ------------------------------------------------------------------------
MaxArgs == 2        \* command-line arguments of one run
MaxKeys == 2        \* annotation keys present in one annotations map
MaxItems == 2       \* elements of the list a changes annotation encodes

\* ------------------------------------------------------------------------
\* Strings (sequences of character codes)
\* ------------------------------------------------------------------------
W_added == <<97, 100, 100, 101, 100>>
W_changed == <<99, 104, 97, 110, 103, 101, 100>>
W_deprecated == <<100, 101, 112, 114, 101, 99, 97, 116, 101, 100>>
W_removed == <<114, 101, 109, 111, 118, 101, 100>>
W_fixed == <<102, 105, 120, 101, 100>>
W_security == <<115, 101, 99, 117, 114, 105, 116, 121>>
W_bogus == <<98, 111, 103, 117, 115>>
W_Added == <<65, 100, 100, 101, 100>>
W_ai_machine_learning == <<97, 105, 45, 109, 97, 99, 104, 105, 110, 101, 45, 108, 101, 97, 114, 110, 105, 110, 103>>
W_database == <<100, 97, 116, 97, 98, 97, 115, 101>>
W_integration_delivery == <<105, 110, 116, 101, 103, 114, 97, 116, 105, 111, 110, 45, 100, 101, 108, 105, 118, 101, 114, 121>>
W_monitoring_logging == <<109, 111, 110, 105, 116, 111, 114, 105, 110, 103, 45, 108, 111, 103, 103, 105, 110, 103>>
W_networking == <<110, 101, 116, 119, 111, 114, 107, 105, 110, 103>>
W_storage == <<115, 116, 111, 114, 97, 103, 101>>
W_streaming_messaging == <<115, 116, 114, 101, 97, 109, 105, 110, 103, 45, 109, 101, 115, 115, 97, 103, 105, 110, 103>>
W_skip_prediction == <<115, 107, 105, 112, 45, 112, 114, 101, 100, 105, 99, 116, 105, 111, 110>>
W_Database == <<68, 97, 116, 97, 98, 97, 115, 101>>
W_true == <<116, 114, 117, 101>>
W_false == <<102, 97, 108, 115, 101>>
W_True == <<84, 114, 117, 101>>
W_False == <<70, 97, 108, 115, 101>>
W_FALSE == <<70, 65, 76, 83, 69>>
W_yes == <<121, 101, 115>>
W_None == <<78, 111, 110, 101>>
W_x == <<120>>
W_empty == <<>>
W_blank == <<32, 32>>
W_padded == <<32, 120, 10>>

\* str.lower() on ASCII text
Lower(s) == [p \in DOMAIN s |-> IF s[p] >= 65 /\ s[p] <= 90 THEN s[p] + 32 ELSE s[p]]

\* the characters str.strip() removes
Whitespace == {9, 10, 11, 12, 13, 28, 29, 30, 31, 32}

RECURSIVE LStrip(_)
LStrip(s) == IF s # <<>> /\ Head(s) \in Whitespace THEN LStrip(Tail(s)) ELSE s

RECURSIVE RStrip(_)
RStrip(s) ==
    IF s # <<>> /\ s[Len(s)] \in Whitespace THEN RStrip(SubSeq(s, 1, Len(s) - 1)) ELSE s

\* str.strip()
Strip(s) == RStrip(LStrip(s))

\* a < b for Python strings: lexicographic on the character codes
StrLess(a, b) ==
    \/ /\ Len(a) < Len(b)
       /\ \A p \in 1..Len(a) : a[p] = b[p]
    \/ \E p \in 1..(IF Len(a) < Len(b) THEN Len(a) ELSE Len(b)) :
          /\ a[p] < b[p]
          /\ \A q \in 1..(p - 1) : a[q] = b[q]

\* sorted(S) for a set of strings
RECURSIVE Sorted(_)
Sorted(S) ==
    IF S = {} THEN <<>>
    ELSE LET m == CHOOSE x \in S : \A y \in S \ {x} : StrLess(x, y)
         IN  <<m>> \o Sorted(S \ {m})

\* the decimal digits of a natural number
RECURSIVE Digits(_)
Digits(n) == IF n < 10 THEN <<48 + n>> ELSE Digits(n \div 10) \o <<48 + (n % 10)>>

\* ------------------------------------------------------------------------
\* Parsed YAML documents
\* ------------------------------------------------------------------------
NoMap == [x \in {} |-> x]

\* One node of a parsed document.  t is the Python type of the value, s the
\* characters of a str, n the value of an int or bool, items the elements of
\* a list, f the entries of a dict, and yaml the outcome of yaml.safe_load
\* on the characters of a str: <<>> for a YAMLError, <<doc>> for a document.
Node(t, s, n, items, f, yaml) ==
    [t |-> t, s |-> s, n |-> n, items |-> items, f |-> f, yaml |-> yaml]

NoneV == Node("NoneType", <<>>, 0, <<>>, NoMap, <<>>)
BoolV(b) == Node("bool", <<>>, IF b THEN 1 ELSE 0, <<>>, NoMap, <<>>)
IntV(n) == Node("int", <<>>, n, <<>>, NoMap, <<>>)
ListV(items) == Node("list", <<>>, 0, items, NoMap, <<>>)
DictV(f) == Node("dict", <<>>, 0, <<>>, f, <<>>)
\* a str whose characters matter and that is never re-parsed as YAML
StrV(s) == Node("str", s, 0, <<>>, NoMap, <<>>)
\* a non-empty str that encodes the YAML document doc (its characters are
\* not spelled out: s is a stand-in, only yaml is read)
TextV(doc) == Node("str", W_x, 0, <<>>, NoMap, <<doc>>)
\* a str that is not valid YAML
BadTextV == Node("str", W_x, 0, <<>>, NoMap, <<>>)

\* key in d, for a dict
Has(d, key) == key \in DOMAIN d.f

\* bool(v): Python truthiness
Truthy(v) ==
    CASE v.t = "NoneType" -> FALSE
      [] v.t = "bool" -> v.n = 1
      [] v.t = "int" -> v.n # 0
      [] v.t = "str" -> v.s # <<>>
      [] v.t = "list" -> v.items # <<>>
      [] v.t = "dict" -> DOMAIN v.f # {}

\* str(v) for a scalar
Str(v) ==
    CASE v.t = "str" -> v.s
      [] v.t = "NoneType" -> W_None
      [] v.t = "bool" -> IF v.n = 1 THEN W_True ELSE W_False
      [] v.t = "int" -> Digits(v.n)

\* hash(v) succeeds
Hashable(v) == v.t \notin {"list", "dict"}

\* yaml.safe_load(str(v)): a str carries its outcome, the text of an int or
\* a bool parses back to the value
SafeLoad(v) ==
    IF v.t = "str" THEN [ok |-> v.yaml # <<>>, doc |-> IF v.yaml # <<>> THEN v.yaml[1] ELSE NoneV]
    ELSE [ok |-> TRUE, doc |-> v]

\* ------------------------------------------------------------------------
\* Error messages
\* ------------------------------------------------------------------------
\* code names the message, ann the annotation, i and j the indices in the
\* message (-1: none), type a type or field name in it, value the characters
\* of a value it quotes, list the values it enumerates
Err(code, ann, i, j, type, value, list) ==
    [code |-> code, ann |-> ann, i |-> i, j |-> j, type |-> type,
     value |-> value, list |-> list]

ReadError == Err("read_error", "", -1, -1, "", <<>>, <<>>)
TabError == Err("tabs", "", -1, -1, "", <<>>, <<>>)
SyntaxError == Err("invalid_yaml", "", -1, -1, "", <<>>, <<>>)
EmptyError == Err("empty_chart", "", -1, -1, "", <<>>, <<>>)
NotMappingError(type) == Err("not_mapping", "", -1, -1, type, <<>>, <<>>)

\* what a validator hands back: a returned list of errors, or an exception
\* that leaves the function (raised names it)
Returned(errors) == [raised |-> "", errors |-> errors]
Raised(exc) == [raised |-> exc, errors |-> <<>>]

\* ------------------------------------------------------------------------
\* validate_changes
\* ------------------------------------------------------------------------
KeyChanges == "artifacthub.io/changes"
KeyImages == "artifacthub.io/images"
KeyLinks == "artifacthub.io/links"
KeyMaintainers == "artifacthub.io/maintainers"
KeyCategory == "artifacthub.io/category"
KeySecurity == "artifacthub.io/containsSecurityUpdates"
KeyOperator == "artifacthub.io/operator"
KeyPrerelease == "artifacthub.io/prerelease"

VALID_CHANGE_KINDS == {W_added, W_changed, W_deprecated, W_removed, W_fixed, W_security}

\* a faulty variant of KindErrors: the kind is looked up with a default, so a
\* missing kind is also reported as an invalid kind
KindErrors_Lookup(change, i) ==
    IF ~Has(change, "kind")
    THEN Returned(<<Err("missing_field", KeyChanges, i, -1, "kind", <<>>, <<>>),
                    Err("invalid_kind", KeyChanges, i, -1, "", W_None,
                        Sorted(VALID_CHANGE_KINDS))>>)
    ELSE IF ~Hashable(change.f["kind"]) THEN Raised("TypeError")
    ELSE IF ~(change.f["kind"].t = "str" /\ change.f["kind"].s \in VALID_CHANGE_KINDS)
         THEN Returned(<<Err("invalid_kind", KeyChanges, i, -1, "", Str(change.f["kind"]),
                             Sorted(VALID_CHANGE_KINDS))>>)
         ELSE Returned(<<>>)

\* the errors of the 'kind' field of the object change at index i
KindErrors(change, i) ==
    IF ~Has(change, "kind")
    THEN Returned(<<Err("missing_field", KeyChanges, i, -1, "kind", <<>>, <<>>)>>)
    ELSE IF ~Hashable(change.f["kind"]) THEN Raised("TypeError")
    ELSE IF ~(change.f["kind"].t = "str" /\ change.f["kind"].s \in VALID_CHANGE_KINDS)
         THEN Returned(<<Err("invalid_kind", KeyChanges, i, -1, "", Str(change.f["kind"]),
                             Sorted(VALID_CHANGE_KINDS))>>)
         ELSE Returned(<<>>)

\* the errors of the 'description' field
DescriptionErrors(change, i) ==
    IF ~Has(change, "description")
    THEN <<Err("missing_field", KeyChanges, i, -1, "description", <<>>, <<>>)>>
    ELSE IF change.f["description"].t # "str"
         THEN <<Err("description_not_string", KeyChanges, i, -1, "", <<>>, <<>>)>>
         ELSE IF Strip(change.f["description"].s) = <<>>
              THEN <<Err("description_empty", KeyChanges, i, -1, "", <<>>, <<>>)>>
              ELSE <<>>

\* the errors of the links of one change, from link j on
RECURSIVE ChangeLinkErrors(_, _, _)
ChangeLinkErrors(links, i, j) ==
    IF j > Len(links) THEN <<>>
    ELSE LET link == links[j]
             here == IF link.t # "dict"
                     THEN <<Err("link_not_object", KeyChanges, i, j - 1, "", <<>>, <<>>)>>
                     ELSE IF ~Has(link, "name") \/ ~Has(link, "url")
                          THEN <<Err("link_incomplete", KeyChanges, i, j - 1, "", <<>>, <<>>)>>
                          ELSE <<>>
         IN  here \o ChangeLinkErrors(links, i, j + 1)

\* the errors of the optional 'links' field
LinksFieldErrors(change, i) ==
    IF ~Has(change, "links") THEN <<>>
    ELSE IF change.f["links"].t # "list"
         THEN <<Err("links_not_list", KeyChanges, i, -1, "", <<>>, <<>>)>>
         ELSE ChangeLinkErrors(change.f["links"].items, i, 1)

\* one iteration of the loop over the changes: the element at index i
ChangeErrors(change, i) ==
    IF change.t = "str" THEN Returned(<<>>)
    ELSE IF change.t # "dict"
         THEN Returned(<<Err("change_bad_type", KeyChanges, i, -1, change.t, <<>>, <<>>)>>)
         ELSE LET kind == KindErrors(change, i)
              IN  IF kind.raised # "" THEN kind
                  ELSE Returned(kind.errors \o DescriptionErrors(change, i)
                                  \o LinksFieldErrors(change, i))

\* the loop over the changes from position p on (index p - 1), the errors
\* collected so far in errors
RECURSIVE ChangesLoop(_, _, _)
ChangesLoop(changes, p, errors) ==
    IF p > Len(changes) THEN Returned(errors)
    ELSE LET r == ChangeErrors(changes[p], p - 1)
         IN  IF r.raised # "" THEN r
             ELSE ChangesLoop(changes, p + 1, errors \o r.errors)

validate_changes(changes_yaml) ==
    LET parsed == SafeLoad(changes_yaml)
    IN  IF ~parsed.ok
        THEN Returned(<<Err("annotation_invalid_yaml", KeyChanges, -1, -1, "", <<>>, <<>>)>>)
        ELSE IF parsed.doc.t = "NoneType" THEN Returned(<<>>)
        ELSE IF parsed.doc.t # "list"
             THEN Returned(<<Err("not_list", KeyChanges, -1, -1, parsed.doc.t, <<>>, <<>>)>>)
             ELSE ChangesLoop(parsed.doc.items, 1, <<>>)

\* ------------------------------------------------------------------------
\* validate_images, validate_links, validate_maintainers
\* ------------------------------------------------------------------------
RECURSIVE ImagesLoop(_, _)
ImagesLoop(images, p) ==
    IF p > Len(images) THEN <<>>
    ELSE LET image == images[p]
             here == IF image.t # "dict"
                     THEN <<Err("not_object", KeyImages, p - 1, -1, "", <<>>, <<>>)>>
                     ELSE IF ~Has(image, "image")
                          THEN <<Err("missing_field", KeyImages, p - 1, -1, "image", <<>>, <<>>)>>
                          ELSE <<>>
         IN  here \o ImagesLoop(images, p + 1)

validate_images(images_yaml) ==
    LET parsed == SafeLoad(images_yaml)
    IN  IF ~parsed.ok
        THEN Returned(<<Err("annotation_invalid_yaml", KeyImages, -1, -1, "", <<>>, <<>>)>>)
        ELSE IF parsed.doc.t = "NoneType" THEN Returned(<<>>)
        ELSE IF parsed.doc.t # "list"
             THEN Returned(<<Err("not_list", KeyImages, -1, -1, parsed.doc.t, <<>>, <<>>)>>)
             ELSE Returned(ImagesLoop(parsed.doc.items, 1))

\* the loop shared in shape by validate_links and validate_maintainers: each
\* element must be an object with the fields first and second
RECURSIVE PairLoop(_, _, _, _, _)
PairLoop(ann, first, second, elems, p) ==
    IF p > Len(elems) THEN <<>>
    ELSE LET e == elems[p]
             here == IF e.t # "dict"
                     THEN <<Err("not_object", ann, p - 1, -1, "", <<>>, <<>>)>>
                     ELSE (IF ~Has(e, first)
                           THEN <<Err("missing_field", ann, p - 1, -1, first, <<>>, <<>>)>>
                           ELSE <<>>)
                          \o
                          (IF ~Has(e, second)
                           THEN <<Err("missing_field", ann, p - 1, -1, second, <<>>, <<>>)>>
                           ELSE <<>>)
         IN  here \o PairLoop(ann, first, second, elems, p + 1)

validate_links(links_yaml) ==
    LET parsed == SafeLoad(links_yaml)
    IN  IF ~parsed.ok
        THEN Returned(<<Err("annotation_invalid_yaml", KeyLinks, -1, -1, "", <<>>, <<>>)>>)
        ELSE IF parsed.doc.t = "NoneType" THEN Returned(<<>>)
        ELSE IF parsed.doc.t # "list"
             THEN Returned(<<Err("not_list", KeyLinks, -1, -1, parsed.doc.t, <<>>, <<>>)>>)
             ELSE Returned(PairLoop(KeyLinks, "name", "url", parsed.doc.items, 1))

validate_maintainers(maintainers_yaml) ==
    LET parsed == SafeLoad(maintainers_yaml)
    IN  IF ~parsed.ok
        THEN Returned(<<Err("annotation_invalid_yaml", KeyMaintainers, -1, -1, "", <<>>, <<>>)>>)
        ELSE IF parsed.doc.t = "NoneType" THEN Returned(<<>>)
        ELSE IF parsed.doc.t # "list"
             THEN Returned(<<Err("not_list", KeyMaintainers, -1, -1, parsed.doc.t, <<>>, <<>>)>>)
             ELSE Returned(PairLoop(KeyMaintainers, "name", "email", parsed.doc.items, 1))

\* ------------------------------------------------------------------------
\* validate_category
\* ------------------------------------------------------------------------
valid_categories ==
    {W_ai_machine_learning, W_database, W_integration_delivery, W_monitoring_logging,
     W_networking, W_security, W_storage, W_streaming_messaging, W_skip_prediction}

validate_category(category) ==
    IF category \notin valid_categories
    THEN <<Err("invalid_category", KeyCategory, -1, -1, "", category, Sorted(valid_categories))>>
    ELSE <<>>

\* ------------------------------------------------------------------------
\* validate_chart_yaml
\* ------------------------------------------------------------------------
\* the validators dict, in insertion order
validators == <<KeyChanges, KeyImages, KeyLinks, KeyMaintainers>>

bool_annotations == <<KeySecurity, KeyOperator, KeyPrerelease>>

Validator(key, text) ==
    CASE key = KeyChanges -> validate_changes(text)
      [] key = KeyImages -> validate_images(text)
      [] key = KeyLinks -> validate_links(text)
      [] key = KeyMaintainers -> validate_maintainers(text)

\* the characters of an annotation key
KeyText(key) ==
    CASE key = KeyChanges -> <<97, 114, 116, 105, 102, 97, 99, 116, 104, 117, 98, 46, 105, 111, 47, 99, 104, 97, 110, 103, 101, 115>>
      [] key = KeyImages -> <<97, 114, 116, 105, 102, 97, 99, 116, 104, 117, 98, 46, 105, 111, 47, 105, 109, 97, 103, 101, 115>>
      [] key = KeyLinks -> <<97, 114, 116, 105, 102, 97, 99, 116, 104, 117, 98, 46, 105, 111, 47, 108, 105, 110, 107, 115>>
      [] key = KeyMaintainers -> <<97, 114, 116, 105, 102, 97, 99, 116, 104, 117, 98, 46, 105, 111, 47, 109, 97, 105, 110, 116, 97, 105, 110, 101, 114, 115>>
      [] key = KeyCategory -> <<97, 114, 116, 105, 102, 97, 99, 116, 104, 117, 98, 46, 105, 111, 47, 99, 97, 116, 101, 103, 111, 114, 121>>
      [] key = KeySecurity -> <<97, 114, 116, 105, 102, 97, 99, 116, 104, 117, 98, 46, 105, 111, 47, 99, 111, 110, 116, 97, 105, 110, 115, 83, 101, 99, 117, 114, 105, 116, 121, 85, 112, 100, 97, 116, 101, 115>>
      [] key = KeyOperator -> <<97, 114, 116, 105, 102, 97, 99, 116, 104, 117, 98, 46, 105, 111, 47, 111, 112, 101, 114, 97, 116, 111, 114>>
      [] key = KeyPrerelease -> <<97, 114, 116, 105, 102, 97, 99, 116, 104, 117, 98, 46, 105, 111, 47, 112, 114, 101, 114, 101, 108, 101, 97, 115, 101>>

\* sub in s, for two strings
Contains(s, sub) ==
    \E p \in 1..(Len(s) - Len(sub) + 1) : SubSeq(s, p, p + Len(sub) - 1) = sub

\* key in annotations: "yes", "no", or "raise" when the value admits no
\* membership test
KeyIn(key, annotations) ==
    CASE annotations.t = "dict" -> IF Has(annotations, key) THEN "yes" ELSE "no"
      [] annotations.t = "str" ->
            IF Contains(annotations.s, KeyText(key)) THEN "yes" ELSE "no"
      [] annotations.t = "list" ->
            IF \E p \in 1..Len(annotations.items) :
                  /\ annotations.items[p].t = "str"
                  /\ annotations.items[p].s = KeyText(key)
            THEN "yes" ELSE "no"
      [] OTHER -> "raise"

\* the position of validate_chart_yaml in its body: pc is the block to run
\* next ("return": the function has returned errors; "raise": an exception
\* has left it), k the position in the loop of that block
Frame(pc, k, errors) == [pc |-> pc, k |-> k, errors |-> errors]

\* chart.get('annotations', {})
Annotations(chart) == IF Has(chart, "annotations") THEN chart.f["annotations"] ELSE DictV(NoMap)

\* a faulty variant of ReadBlock: the tab error ends the validation
ReadBlock_StopsAtTab(f) ==
    IF ~f.readable THEN Frame("return", 0, <<ReadError>>)
    ELSE IF f.hasTab THEN Frame("return", 0, <<TabError>>) ELSE Frame("load", 0, <<>>)

\* open and read the file, then the check for tabs
ReadBlock(f) ==
    IF ~f.readable THEN Frame("return", 0, <<ReadError>>)
    ELSE Frame("load", 0, IF f.hasTab THEN <<TabError>> ELSE <<>>)

\* a faulty variant of LoadBlock: a chart without annotations is an error
LoadBlock_RequiresAnnotations(f, errors) ==
    IF f.yaml = <<>> THEN Frame("return", 0, errors \o <<SyntaxError>>)
    ELSE LET chart == f.yaml[1]
         IN  IF chart.t = "NoneType" THEN Frame("return", 0, errors \o <<EmptyError>>)
             ELSE IF chart.t # "dict"
                  THEN Frame("return", 0, errors \o <<NotMappingError(chart.t)>>)
                  ELSE IF ~Truthy(Annotations(chart))
                       THEN Frame("return", 0, errors \o <<EmptyError>>)
                       ELSE Frame("validators", 1, errors)

\* yaml.safe_load of the content, the checks of the top-level document and
\* the lookup of the annotations
LoadBlock(f, errors) ==
    IF f.yaml = <<>> THEN Frame("return", 0, errors \o <<SyntaxError>>)
    ELSE LET chart == f.yaml[1]
         IN  IF chart.t = "NoneType" THEN Frame("return", 0, errors \o <<EmptyError>>)
             ELSE IF chart.t # "dict"
                  THEN Frame("return", 0, errors \o <<NotMappingError(chart.t)>>)
                  ELSE IF ~Truthy(Annotations(chart)) THEN Frame("return", 0, errors)
                       ELSE Frame("validators", 1, errors)

\* after iteration k of a loop over n elements
AfterLoop(pc, k, n, then, errors) ==
    IF k < n THEN Frame(pc, k + 1, errors) ELSE Frame(then, 1, errors)

\* a faulty variant of ValidatorBlock: the errors of a validator replace the
\* errors collected so far
ValidatorBlock_Overwrites(f, k, errors) ==
    LET annotations == Annotations(f.yaml[1])
        key == validators[k]
        in == KeyIn(key, annotations)
    IN  IF in = "raise" THEN Frame("raise", k, errors)
        ELSE IF in = "no" THEN AfterLoop("validators", k, Len(validators), "category", errors)
        ELSE IF annotations.t # "dict" THEN Frame("raise", k, errors)
        ELSE IF annotations.f[key].t = "NoneType"
             THEN AfterLoop("validators", k, Len(validators), "category", errors)
             ELSE LET r == Validator(key, annotations.f[key])
                  IN  IF r.raised # "" THEN Frame("raise", k, errors)
                      ELSE AfterLoop("validators", k, Len(validators), "category", r.errors)

\* iteration k of the loop over the validators
ValidatorBlock(f, k, errors) ==
    LET annotations == Annotations(f.yaml[1])
        key == validators[k]
        in == KeyIn(key, annotations)
    IN  IF in = "raise" THEN Frame("raise", k, errors)
        ELSE IF in = "no" THEN AfterLoop("validators", k, Len(validators), "category", errors)
        ELSE IF annotations.t # "dict" THEN Frame("raise", k, errors)
        ELSE IF annotations.f[key].t = "NoneType"
             THEN AfterLoop("validators", k, Len(validators), "category", errors)
             ELSE LET r == Validator(key, annotations.f[key])
                  IN  IF r.raised # "" THEN Frame("raise", k, errors)
                      ELSE AfterLoop("validators", k, Len(validators), "category",
                                     errors \o r.errors)

\* a faulty variant of CategoryBlock: an empty category is validated too
CategoryBlock_NoGuard(f, errors) ==
    LET annotations == Annotations(f.yaml[1])
        in == KeyIn(KeyCategory, annotations)
    IN  IF in = "raise" THEN Frame("raise", 1, errors)
        ELSE IF in = "no" THEN Frame("bools", 1, errors)
        ELSE IF annotations.t # "dict" THEN Frame("raise", 1, errors)
        ELSE Frame("bools", 1, errors \o validate_category(Str(annotations.f[KeyCategory])))

\* a faulty variant of CategoryBlock: a map without category is an error
CategoryBlock_Required(f, errors) ==
    LET annotations == Annotations(f.yaml[1])
        in == KeyIn(KeyCategory, annotations)
    IN  IF in = "raise" THEN Frame("raise", 1, errors)
        ELSE IF in = "no"
             THEN Frame("bools", 1, errors \o <<Err("missing_field", KeyCategory, -1, -1,
                                                    "category", <<>>, <<>>)>>)
        ELSE IF annotations.t # "dict" THEN Frame("raise", 1, errors)
        ELSE IF ~Truthy(annotations.f[KeyCategory]) THEN Frame("bools", 1, errors)
             ELSE Frame("bools", 1,
                        errors \o validate_category(Str(annotations.f[KeyCategory])))

\* the check of the category
CategoryBlock(f, errors) ==
    LET annotations == Annotations(f.yaml[1])
        in == KeyIn(KeyCategory, annotations)
    IN  IF in = "raise" THEN Frame("raise", 1, errors)
        ELSE IF in = "no" THEN Frame("bools", 1, errors)
        ELSE IF annotations.t # "dict" THEN Frame("raise", 1, errors)
        ELSE IF ~Truthy(annotations.f[KeyCategory]) THEN Frame("bools", 1, errors)
             ELSE Frame("bools", 1,
                        errors \o validate_category(Str(annotations.f[KeyCategory])))

\* a faulty variant of BoolBlock: the value is compared as it is written
BoolBlock_CaseSensitive(f, k, errors) ==
    LET annotations == Annotations(f.yaml[1])
        annotation == bool_annotations[k]
        in == KeyIn(annotation, annotations)
    IN  IF in = "raise" THEN Frame("raise", k, errors)
        ELSE IF in = "no" THEN AfterLoop("bools", k, Len(bool_annotations), "return", errors)
        ELSE IF annotations.t # "dict" THEN Frame("raise", k, errors)
        ELSE LET value == Str(annotations.f[annotation])
             IN  IF value \notin {W_true, W_false}
                 THEN AfterLoop("bools", k, Len(bool_annotations), "return",
                                errors \o <<Err("not_boolean", annotation, -1, -1, "",
                                                Str(annotations.f[annotation]), <<>>)>>)
                 ELSE AfterLoop("bools", k, Len(bool_annotations), "return", errors)

\* iteration k of the loop over the boolean annotations
BoolBlock(f, k, errors) ==
    LET annotations == Annotations(f.yaml[1])
        annotation == bool_annotations[k]
        in == KeyIn(annotation, annotations)
    IN  IF in = "raise" THEN Frame("raise", k, errors)
        ELSE IF in = "no" THEN AfterLoop("bools", k, Len(bool_annotations), "return", errors)
        ELSE IF annotations.t # "dict" THEN Frame("raise", k, errors)
        ELSE LET value == Lower(Str(annotations.f[annotation]))
             IN  IF value \notin {W_true, W_false}
                 THEN AfterLoop("bools", k, Len(bool_annotations), "return",
                                errors \o <<Err("not_boolean", annotation, -1, -1, "",
                                                Str(annotations.f[annotation]), <<>>)>>)
                 ELSE AfterLoop("bools", k, Len(bool_annotations), "return", errors)

\* one block of validate_chart_yaml from the frame fr
Step(f, fr) ==
    CASE fr.pc = "read" -> ReadBlock(f)
      [] fr.pc = "load" -> LoadBlock(f, fr.errors)
      [] fr.pc = "validators" -> ValidatorBlock(f, fr.k, fr.errors)
      [] fr.pc = "category" -> CategoryBlock(f, fr.errors)
      [] fr.pc = "bools" -> BoolBlock(f, fr.k, fr.errors)

RECURSIVE Run(_, _)
Run(f, fr) == IF fr.pc \in {"return", "raise"} THEN fr ELSE Run(f, Step(f, fr))

\* validate_chart_yaml(filename) for the file f that filename names
validate_chart_yaml(f) == Run(f, Frame("read", 0, <<>>))

\* ------------------------------------------------------------------------
\* The files the command line can name
\* ------------------------------------------------------------------------
\* A path: whether it exists, its file name, whether open() and read()
\* succeed on it, whether its content has a tab, and the outcome of
\* yaml.safe_load on its content (<<>>: YAMLError, <<doc>>: the document)
File(exists, name, readable, hasTab, yaml) ==
    [exists |-> exists, name |-> name, readable |-> readable, hasTab |-> hasTab,
     yaml |-> yaml]

NoFile == File(FALSE, "", FALSE, FALSE, <<>>)

\* a dict with the field name when opt is <<value>>, without it when opt is <<>>
OptField(name, opt) == IF opt = <<>> THEN NoMap ELSE (name :> opt[1])

LinkOk == DictV(("name" :> StrV(W_x)) @@ ("url" :> StrV(W_x)))
LinkNoUrl == DictV("name" :> StrV(W_x))
LinkNoName == DictV("url" :> StrV(W_x))

KindOpts ==
    {<<>>} \cup
    {<<v>> : v \in {StrV(W_added), StrV(W_security), StrV(W_bogus), StrV(W_Added), IntV(5),
                    BoolV(TRUE), NoneV, ListV(<<StrV(W_added)>>), DictV(NoMap)}}

DescOpts ==
    {<<>>, <<IntV(5)>>, <<StrV(W_empty)>>, <<StrV(W_blank)>>, <<StrV(W_padded)>>, <<StrV(W_x)>>}

LinksOpts ==
    {<<>>, <<StrV(W_x)>>, <<ListV(<<>>)>>, <<ListV(<<LinkOk>>)>>,
     <<ListV(<<StrV(W_x), LinkNoUrl>>)>>, <<ListV(<<LinkOk, LinkNoName>>)>>}

ChangeObject(kind, description, links) ==
    DictV(OptField("kind", kind) @@ OptField("description", description)
            @@ OptField("links", links))

\* every shape of one element of the changes list
AllChanges ==
    {StrV(W_x), IntV(5), NoneV} \cup
    {ChangeObject(a, b, c) : a \in KindOpts, b \in DescOpts, c \in LinksOpts}

\* the elements the longer lists are made of
FewChanges ==
    {StrV(W_x), IntV(5),
     ChangeObject(<<StrV(W_added)>>, <<StrV(W_x)>>, <<>>),
     ChangeObject(<<>>, <<StrV(W_x)>>, <<>>),
     ChangeObject(<<>>, <<StrV(W_blank)>>, <<ListV(<<StrV(W_x)>>)>>),
     ChangeObject(<<StrV(W_bogus)>>, <<>>, <<>>),
     ChangeObject(<<ListV(<<StrV(W_added)>>)>>, <<StrV(W_x)>>, <<>>)}

\* the sequences over S of length n
RECURSIVE SeqsOf(_, _)
SeqsOf(S, n) ==
    IF n = 0 THEN {<<>>} ELSE {<<x>> \o s : x \in S, s \in SeqsOf(S, n - 1)}

ChangesLists ==
    {<<c>> : c \in AllChanges} \cup UNION {SeqsOf(FewChanges, n) : n \in 0..MaxItems}

ImageOk == DictV("image" :> StrV(W_x))

\* the values an annotation can have in the annotations map
KeyValues(key) ==
    CASE key = KeyChanges ->
            {NoneV, BadTextV, TextV(NoneV), TextV(StrV(W_x)), IntV(5),
             TextV(ListV(<<ChangeObject(<<StrV(W_added)>>, <<StrV(W_x)>>, <<>>)>>)),
             TextV(ListV(<<ChangeObject(<<>>, <<StrV(W_blank)>>, <<>>)>>)),
             TextV(ListV(<<ChangeObject(<<DictV(NoMap)>>, <<StrV(W_x)>>, <<>>)>>))}
      [] key = KeyImages ->
            {NoneV, BadTextV, TextV(DictV(NoMap)),
             TextV(ListV(<<ImageOk, StrV(W_x), DictV(NoMap)>>))}
      [] key = KeyLinks ->
            {NoneV, BadTextV, TextV(ListV(<<LinkOk>>)),
             TextV(ListV(<<LinkNoUrl, DictV(NoMap), IntV(5)>>))}
      [] key = KeyMaintainers ->
            {TextV(NoneV), BadTextV, TextV(BoolV(TRUE)),
             TextV(ListV(<<DictV(("name" :> StrV(W_x)) @@ ("email" :> StrV(W_x)))>>)),
             TextV(ListV(<<DictV("email" :> StrV(W_x)), StrV(W_x)>>))}
      [] key = KeyCategory ->
            {StrV(W_database), StrV(W_security), StrV(W_bogus), StrV(W_Database),
             StrV(W_empty), IntV(5), IntV(0), BoolV(FALSE), NoneV}
      [] key \in {KeySecurity, KeyOperator, KeyPrerelease} ->
            {StrV(W_true), StrV(W_True), StrV(W_FALSE), StrV(W_yes), StrV(W_empty),
             NoneV, BoolV(TRUE), IntV(1)}

\* the values the annotations of a map of several keys are taken from
SomeValues(key) ==
    CASE key = KeyChanges ->
            {TextV(ListV(<<ChangeObject(<<StrV(W_added)>>, <<StrV(W_x)>>, <<>>)>>)),
             TextV(ListV(<<ChangeObject(<<>>, <<StrV(W_blank)>>, <<>>)>>))}
      [] key = KeyImages ->
            {TextV(ListV(<<ImageOk>>)), TextV(ListV(<<ImageOk, StrV(W_x), DictV(NoMap)>>))}
      [] key = KeyLinks ->
            {TextV(ListV(<<LinkOk>>)), TextV(ListV(<<LinkNoUrl, DictV(NoMap), IntV(5)>>))}
      [] key = KeyMaintainers ->
            {TextV(ListV(<<DictV(("name" :> StrV(W_x)) @@ ("email" :> StrV(W_x)))>>)),
             TextV(BoolV(TRUE))}
      [] key = KeyCategory -> {StrV(W_database), StrV(W_bogus), StrV(W_empty)}
      [] key \in {KeySecurity, KeyOperator, KeyPrerelease} ->
            {StrV(W_True), StrV(W_yes), NoneV}

AllKeys == {validators[p] : p \in DOMAIN validators} \cup {KeyCategory}
             \cup {bool_annotations[p] : p \in DOMAIN bool_annotations}

\* the annotations maps of several keys whose keys are exactly S
RECURSIVE MapsOver(_)
MapsOver(S) ==
    IF S = {} THEN {NoMap}
    ELSE LET key == CHOOSE x \in S : TRUE
         IN  {(key :> v) @@ m : v \in SomeValues(key), m \in MapsOver(S \ {key})}

AnnotationMaps ==
    {NoMap}
    \cup UNION {{key :> v : v \in KeyValues(key)} : key \in AllKeys}
    \cup UNION {MapsOver(S) : S \in {T \in SUBSET AllKeys : Cardinality(T) \in 2..MaxKeys}}
    \cup {KeyChanges :> TextV(ListV(l)) : l \in ChangesLists}

\* the values of the annotations key of a chart
AnnotationValues ==
    {DictV(m) : m \in AnnotationMaps}
    \cup {NoneV, StrV(W_empty), IntV(0), ListV(<<>>),
          IntV(5), BoolV(TRUE), StrV(W_x), StrV(KeyText(KeyCategory)),
          ListV(<<StrV(W_x)>>), ListV(<<StrV(KeyText(KeyOperator))>>)}

\* the outcomes of yaml.safe_load on the content of a file
ChartYamls ==
    {<<>>, <<NoneV>>, <<ListV(<<>>)>>, <<StrV(W_x)>>, <<DictV(NoMap)>>,
     <<DictV("name" :> StrV(W_x))>>}
    \cup {<<DictV(("name" :> StrV(W_x)) @@ ("annotations" :> a))>> : a \in AnnotationValues}

Files ==
    {File(FALSE, n, FALSE, FALSE, <<>>) : n \in {"Chart.yaml", "values.yaml"}}
    \cup {File(TRUE, "values.yaml", TRUE, FALSE, <<>>), File(TRUE, "Chart.yaml", FALSE, FALSE, <<>>)}
    \cup {File(TRUE, "Chart.yaml", TRUE, tab, y) : tab \in BOOLEAN, y \in ChartYamls}

\* ------------------------------------------------------------------------
\* main
\* ------------------------------------------------------------------------
VARIABLES
    pc,         \* the position of the run
    argc,       \* len(sys.argv) - 1
    argi,       \* the number of arguments the loop of main has taken
    file,       \* the path the current argument names
    k,          \* the position in the loop of validate_chart_yaml
    errors,     \* the errors list of validate_chart_yaml, then of main
    exit_code,  \* exit_code of main
    rc,         \* the value main has returned (-1: none yet)
    output,     \* what was printed: per line group, the argument and the marker
    trace       \* per argument taken and finished: how its iteration ended

vars == <<pc, argc, argi, file, k, errors, exit_code, rc, output, trace>>

Init ==
    /\ pc = "main"
    /\ argc \in 0..MaxArgs
    /\ argi = 0
    /\ file = NoFile
    /\ k = 0
    /\ errors = <<>>
    /\ exit_code = 0
    /\ rc = -1
    /\ output = <<>>
    /\ trace = <<>>

Printed(arg, marker) == [arg |-> arg, marker |-> marker]

\* len(sys.argv) < 2
Usage ==
    /\ pc = "main"
    /\ argc = 0
    /\ output' = Append(output, Printed(0, "usage"))
    /\ rc' = 1
    /\ pc' = "done"
    /\ UNCHANGED <<argc, argi, file, k, errors, exit_code, trace>>

Start ==
    /\ pc = "main"
    /\ argc >= 1
    /\ exit_code' = 0
    /\ pc' = "loop"
    /\ UNCHANGED <<argc, argi, file, k, errors, rc, output, trace>>

\* the next argument names a path that does not exist
NotFound ==
    /\ pc = "loop"
    /\ argi < argc
    /\ \E f \in Files :
          /\ ~f.exists
          /\ file' = f
          /\ trace' = Append(trace, "not_found")
    /\ argi' = argi + 1
    /\ output' = Append(output, Printed(argi + 1, "not_found"))
    /\ exit_code' = 1
    /\ pc' = "next"
    /\ UNCHANGED <<argc, k, errors, rc>>

\* the next argument names an existing path that is not a Chart.yaml
SkipFile ==
    /\ pc = "loop"
    /\ argi < argc
    /\ \E f \in Files :
          /\ f.exists
          /\ f.name # "Chart.yaml"
          /\ file' = f
          /\ trace' = Append(trace, "skipped")
    /\ argi' = argi + 1
    /\ pc' = "next"
    /\ UNCHANGED <<argc, k, errors, exit_code, rc, output>>

\* the next argument names an existing Chart.yaml: validate_chart_yaml is called
CallValidate ==
    /\ pc = "loop"
    /\ argi < argc
    /\ \E f \in Files :
          /\ f.exists
          /\ f.name = "Chart.yaml"
          /\ file' = f
    /\ argi' = argi + 1
    /\ pc' = "read"
    /\ k' = 0
    /\ errors' = <<>>
    /\ UNCHANGED <<argc, exit_code, rc, output, trace>>

\* the frame of validate_chart_yaml in the current state
Current == Frame(pc, k, errors)

Enter(fr) ==
    /\ pc' = fr.pc
    /\ k' = fr.k
    /\ errors' = fr.errors
    /\ UNCHANGED <<argc, argi, file, exit_code, rc, output, trace>>

ReadFile == pc = "read" /\ Enter(Step(file, Current))

LoadChart == pc = "load" /\ Enter(Step(file, Current))

RunValidator == pc = "validators" /\ Enter(Step(file, Current))

CheckCategory == pc = "category" /\ Enter(Step(file, Current))

CheckBool == pc = "bools" /\ Enter(Step(file, Current))

\* an exception left validate_chart_yaml: main has no handler, the run ends
\* with a traceback
Uncaught ==
    /\ pc = "raise"
    /\ pc' = "crashed"
    /\ trace' = Append(trace, "raised")
    /\ UNCHANGED <<argc, argi, file, k, errors, exit_code, rc, output>>

ReportInvalid ==
    /\ pc = "return"
    /\ errors # <<>>
    /\ output' = Append(output, Printed(argi, "invalid"))
    /\ exit_code' = 1
    /\ trace' = Append(trace, "errors")
    /\ pc' = "next"
    /\ UNCHANGED <<argc, argi, file, k, errors, rc>>

\* a faulty variant of ReportValid: a valid file sets exit_code back to 0
ReportValid_Resets ==
    /\ pc = "return"
    /\ errors = <<>>
    /\ output' = Append(output, Printed(argi, "valid"))
    /\ trace' = Append(trace, "no_errors")
    /\ exit_code' = 0
    /\ pc' = "next"
    /\ UNCHANGED <<argc, argi, file, k, errors, rc>>

ReportValid ==
    /\ pc = "return"
    /\ errors = <<>>
    /\ output' = Append(output, Printed(argi, "valid"))
    /\ trace' = Append(trace, "no_errors")
    /\ pc' = "next"
    /\ UNCHANGED <<argc, argi, file, k, errors, exit_code, rc>>

\* the for statement moves on: the path and the errors of the iteration that
\* ended are not read again (the next iteration assigns them before any use)
NextArgument ==
    /\ pc = "next"
    /\ pc' = "loop"
    /\ file' = NoFile
    /\ k' = 0
    /\ errors' = <<>>
    /\ UNCHANGED <<argc, argi, exit_code, rc, output, trace>>

\* the loop over the arguments is over
Return ==
    /\ pc = "loop"
    /\ argi = argc
    /\ rc' = exit_code
    /\ pc' = "done"
    /\ UNCHANGED <<argc, argi, file, k, errors, exit_code, output, trace>>

Next ==
    \/ Usage
    \/ Start
    \/ NotFound
    \/ SkipFile
    \/ CallValidate
    \/ ReadFile
    \/ LoadChart
    \/ RunValidator
    \/ CheckCategory
    \/ CheckBool
    \/ Uncaught
    \/ ReportInvalid
    \/ ReportValid
    \/ NextArgument
    \/ Return

Spec == Init /\ [][Next]_vars

\* ------------------------------------------------------------------------
\* Properties
\* ------------------------------------------------------------------------
\* the document of the current file and its annotations, where they exist
IsChart == file.exists /\ file.name = "Chart.yaml"

HasDict == IsChart /\ file.readable /\ file.yaml # <<>> /\ file.yaml[1].t = "dict"

Chart == file.yaml[1]

\* the top-level document is a mapping whose annotations are a non-empty map
HasAnnotationsMap == HasDict /\ Annotations(Chart).t = "dict" /\ Truthy(Annotations(Chart))

Ann == Annotations(Chart).f

\* validate_chart_yaml has returned for the current file
HasReturned == IsChart /\ pc \in {"return", "next"}

\* main has printed the report of the current file
Reported == IsChart /\ pc = "next"

LastOutput == output[Len(output)]

LastTrace == trace[Len(trace)]

\* the elements of seq that satisfy Test, in order
Select(seq, Test(_)) == SelectSeq(seq, Test)

\* the number of elements of seq that satisfy Test
Count(seq, Test(_)) == Cardinality({q \in DOMAIN seq : Test(seq[q])})

Range(seq) == {seq[q] : q \in DOMAIN seq}

\* f with the text changed so that it has no tab, the document being the same
NoTab(f) == [f EXCEPT !.hasTab = FALSE]

\* f with the annotations replaced by the map m
WithMap(f, m) ==
    [f EXCEPT !.yaml = <<[f.yaml[1] EXCEPT !.f = [x \in DOMAIN f.yaml[1].f |->
                              IF x = "annotations" THEN DictV(m) ELSE f.yaml[1].f[x]]]>>]

\* m without the key
Without(m, key) == [x \in DOMAIN m \ {key} |-> m[x]]

\* m with no other key than key
Only(m, key) == [x \in DOMAIN m \cap {key} |-> m[x]]

\* f with the annotations key removed from the top-level document
WithoutAnnotations(f) ==
    [f EXCEPT !.yaml = <<[f.yaml[1] EXCEPT !.f = Without(f.yaml[1].f, "annotations")]>>]

\* C1: when main returns for a non-empty argument list, it returns 1 if some
\* argument names a missing path or some existing Chart.yaml got a non-empty
\* list of errors from validate_chart_yaml, and 0 otherwise; exit_code, once
\* 1, stays 1; an existing path that is not a Chart.yaml leaves it as it is.
C1_Final ==
    /\ pc = "next" =>
          /\ (LastTrace = "not_found") = ~file.exists
          /\ (LastTrace = "skipped") = (file.exists /\ file.name # "Chart.yaml")
          /\ (LastTrace = "errors") = (IsChart /\ validate_chart_yaml(file).errors # <<>>)
    /\ (pc = "done" /\ argc > 0) =>
          /\ Len(trace) = argc
          /\ rc = IF \E p \in DOMAIN trace : trace[p] \in {"not_found", "errors"}
                  THEN 1 ELSE 0

C1_Sticky == exit_code = 1 => exit_code' = 1

C1_Skip ==
    (pc = "loop" /\ pc' = "next" /\ file'.exists /\ file'.name # "Chart.yaml")
        => exit_code' = exit_code

C1_ExitCode == []C1_Final /\ [][C1_Sticky /\ C1_Skip]_vars

\* C1 witness: a run of two arguments, the first a Chart.yaml with errors,
\* the second a valid Chart.yaml, that has returned 1
C1_Witness ==
    /\ pc = "done"
    /\ rc = 1
    /\ Len(trace) = 2
    /\ trace[1] = "errors"
    /\ trace[2] = "no_errors"

\* C2: every existing argument named Chart.yaml is processed to completion
\* and gets exactly one report, in command-line order, whatever the files
\* contain: the run ends with all arguments taken and one success or failure
\* marker per such argument.
C2_EveryChartReported ==
    pc \in {"done", "crashed"} =>
        /\ argi = argc
        /\ \A p \in DOMAIN trace :
              trace[p] \in {"errors", "no_errors", "raised"} =>
                  Count(output, LAMBDA o : o.arg = p /\ o.marker \in {"valid", "invalid"}) = 1
        /\ \A p, q \in DOMAIN output : p < q => output[p].arg < output[q].arg

\* C3: for a file whose text has a tab, the result of validate_chart_yaml is
\* the tab error followed by exactly the errors the file gets without the
\* tab; the report of the file is a failure and exit_code is 1.
C3_TabFirst ==
    (HasReturned /\ file.readable /\ file.hasTab) =>
        /\ errors # <<>>
        /\ errors[1] = TabError
        /\ validate_chart_yaml(NoTab(file)).pc = "return"
        /\ Tail(errors) = validate_chart_yaml(NoTab(file)).errors
        /\ Reported => (LastOutput = Printed(argi, "invalid") /\ exit_code = 1)

\* C3 witness: a file with a tab and with annotations that have no error has
\* been reported with the tab error only
C3_Witness ==
    /\ Reported
    /\ file.hasTab
    /\ HasAnnotationsMap
    /\ Cardinality(DOMAIN Ann) = MaxKeys
    /\ errors = <<TabError>>
    /\ exit_code = 1

\* the top-level document is a mapping with no annotations key or with an
\* empty annotations map
NoAnnotations ==
    HasDict /\ (~Has(Chart, "annotations") \/ Chart.f["annotations"] = DictV(NoMap))

\* C4 (as stated): a manifest that parses to a top-level mapping and has no
\* annotations key, or an empty annotations map, gets zero errors and is
\* reported valid.
C4_NoAnnotationsNoErrors ==
    (HasReturned /\ NoAnnotations) =>
        /\ errors = <<>>
        /\ Reported => LastOutput = Printed(argi, "valid")

\* C4 (amended): such a manifest gets zero errors and is reported valid when
\* its text has no tab; when it has one, the tab error is its only error.
C4_NoAnnotationsNoTab ==
    (HasReturned /\ NoAnnotations) =>
        /\ ~file.hasTab => errors = <<>>
        /\ file.hasTab => errors = <<TabError>>
        /\ (Reported /\ ~file.hasTab) => LastOutput = Printed(argi, "valid")

\* C4 witness: a mapping without annotations key and without tab was reported valid
C4_Witness ==
    /\ Reported
    /\ NoAnnotations
    /\ ~Has(Chart, "annotations")
    /\ ~file.hasTab
    /\ LastOutput = Printed(argi, "valid")

\* the changes annotation of the current file encodes a list
HasChangesList ==
    /\ HasAnnotationsMap
    /\ KeyChanges \in DOMAIN Ann
    /\ Ann[KeyChanges].t = "str"
    /\ Ann[KeyChanges].yaml # <<>>
    /\ Ann[KeyChanges].yaml[1].t = "list"

Changes == Ann[KeyChanges].yaml[1].items

\* validate_changes has returned its errors for the current file
ChangesReturned == HasChangesList /\ pc = "validators" /\ k = 2

\* C5: in the errors validate_changes returns, every object element without
\* the key kind has exactly one error that names the missing field kind and
\* the index of the element, and no invalid-kind error; an element that lacks
\* only kind has exactly one error in all.
C5_MissingKind ==
    ChangesReturned =>
        \A p \in DOMAIN Changes :
            (Changes[p].t = "dict" /\ ~Has(Changes[p], "kind")) =>
                /\ Count(errors, LAMBDA e : /\ e.ann = KeyChanges
                                            /\ e.i = p - 1
                                            /\ e.code = "missing_field"
                                            /\ e.type = "kind") = 1
                /\ Count(errors, LAMBDA e : /\ e.ann = KeyChanges
                                            /\ e.i = p - 1
                                            /\ e.code = "invalid_kind") = 0
                /\ ( /\ Has(Changes[p], "description")
                     /\ Changes[p].f["description"] \in {StrV(W_x), StrV(W_padded)}
                     /\ ~Has(Changes[p], "links") )
                   => Len(Select(errors, LAMBDA e : e.ann = KeyChanges /\ e.i = p - 1)) = 1

\* C5 witness: validate_changes returned for a list whose second element has
\* no kind, a blank description and a bad link
C5_Witness ==
    /\ ChangesReturned
    /\ Len(Changes) = 2
    /\ Changes[2].t = "dict"
    /\ ~Has(Changes[2], "kind")
    /\ Has(Changes[2], "links")
    /\ Len(Select(errors, LAMBDA e : e.i = 1)) = 3

\* the value is one of the six valid kinds
IsValidKind(v) ==
    v.t = "str" /\ v.s \in {W_added, W_changed, W_deprecated, W_removed, W_fixed, W_security}

\* C6: an object element whose kind is anything but one of the six valid
\* kinds, of whatever type, gets an invalid-kind error that lists the six
\* kinds in alphabetical order, and validation goes on: validate_changes
\* returns.
C6_InvalidKind ==
    (HasChangesList /\ pc \in {"validators", "raise"} /\ k = IF pc = "raise" THEN 1 ELSE 2) =>
        /\ pc # "raise"
        /\ \A p \in DOMAIN Changes :
              (Changes[p].t = "dict" /\ Has(Changes[p], "kind")
                 /\ ~IsValidKind(Changes[p].f["kind"])) =>
                  \E q \in DOMAIN errors :
                      /\ errors[q].code = "invalid_kind"
                      /\ errors[q].i = p - 1
                      /\ errors[q].list = <<W_added, W_changed, W_deprecated, W_fixed,
                                            W_removed, W_security>>

\* the category check of the current file is over
CategoryChecked ==
    HasAnnotationsMap /\ KeyCategory \in DOMAIN Ann /\ pc = "bools" /\ k = 1

IsCategory(v) == v.t = "str" /\ v.s \in valid_categories

CategoryErrors == Select(errors, LAMBDA e : e.ann = KeyCategory)

\* the nine slugs in alphabetical order
SortedCategories ==
    <<W_ai_machine_learning, W_database, W_integration_delivery, W_monitoring_logging,
      W_networking, W_security, W_skip_prediction, W_storage, W_streaming_messaging>>

BoolErrors(key) == Select(errors, LAMBDA e : e.ann = key)

\* C8: when validate_chart_yaml returns, each boolean-flag key that is
\* present has no error exactly when its value, as a lowercased string, is
\* "true" or "false", and else exactly one error that names the value as it
\* was: "True" and "FALSE" pass; "yes", the empty string and null do not.
C8_BoolFlags ==
    (HasReturned /\ HasAnnotationsMap) =>
        \A p \in DOMAIN bool_annotations :
            LET key == bool_annotations[p] IN
            key \in DOMAIN Ann =>
                /\ IF Lower(Str(Ann[key])) \in {W_true, W_false}
                   THEN BoolErrors(key) = <<>>
                   ELSE /\ Len(BoolErrors(key)) = 1
                        /\ BoolErrors(key)[1].code = "not_boolean"
                        /\ BoolErrors(key)[1].value = Str(Ann[key])
                /\ Ann[key] \in {StrV(W_True), StrV(W_FALSE), StrV(W_true)}
                      => BoolErrors(key) = <<>>
                /\ Ann[key] \in {StrV(W_yes), StrV(W_empty), NoneV}
                      => Len(BoolErrors(key)) = 1
                /\ Ann[key] = NoneV => BoolErrors(key)[1].value = W_None

\* C8 witness: operator "True" passed and prerelease null got the only error
C8_Witness ==
    /\ HasReturned
    /\ HasAnnotationsMap
    /\ DOMAIN Ann = {KeyOperator, KeyPrerelease}
    /\ Ann[KeyOperator] = StrV(W_True)
    /\ Ann[KeyPrerelease] = NoneV
    /\ Len(errors) = 1

\* C9: when validate_chart_yaml returns no errors for a manifest, it returns
\* no errors for the manifest without its annotations key; when it returns
\* for a manifest, it returns for the manifest without any one recognized
\* annotation key, and every error it then returns is one of the errors of
\* the manifest itself.
C9_Monotone ==
    (HasReturned /\ HasDict) =>
        /\ errors = <<>> =>
              validate_chart_yaml(WithoutAnnotations(file)) = Frame("return", 0, <<>>)
        /\ HasAnnotationsMap =>
              \A key \in DOMAIN Ann \cap AllKeys :
                  LET less == validate_chart_yaml(WithMap(file, Without(Ann, key)))
                  IN  /\ less.pc = "return"
                      /\ Range(less.errors) \subseteq Range(errors)
                      /\ Len(less.errors) <= Len(errors)

\* C9 witness: a manifest with two annotations and an error for each returned
C9_Witness ==
    /\ HasReturned
    /\ HasAnnotationsMap
    /\ DOMAIN Ann = {KeyImages, KeyCategory}
    /\ Len(errors) >= 3
    /\ validate_chart_yaml(WithMap(file, Without(Ann, KeyImages))).errors # <<>>

\* every recognized key, in the order of the checks
CheckOrder == validators \o <<KeyCategory>> \o bool_annotations

\* the errors of the annotation key alone: those of the manifest that has no
\* other annotation and no tab
ErrorsOf(key) == validate_chart_yaml(NoTab(WithMap(file, Only(Ann, key)))).errors

RECURSIVE Concatenated(_)
Concatenated(p) == IF p > Len(CheckOrder) THEN <<>> ELSE ErrorsOf(CheckOrder[p]) \o Concatenated(p + 1)

\* the errors of the element p of the changes list when it is the only
\* element, with its own index in them
ErrorsOfChange(p) ==
    LET alone == validate_changes(TextV(ListV(<<Changes[p]>>))).errors
    IN  [q \in DOMAIN alone |-> [alone[q] EXCEPT !.i = p - 1]]

====
